---------------------------- MODULE Spec2Model ----------------------------
(***************************************************************************)
(* tap-cbr: the daily exchange-rate tap of src/tap_cbr/__init__.py.        *)
(*                                                                         *)
(* do_sync is modelled as a sequential state machine.  One action stands   *)
(* for each step of its control flow: the currencies check and the         *)
(* initialisation, the test of the while loop, one HTTP attempt of         *)
(* make_retry, the exhaustion of make_retry, the processing of the value   *)
(* make_retry returned, and the emission of schema, records and state.     *)
(*                                                                         *)
(* Python values: an ISO date string "YYYY-MM-DD" is the triple <<y,m,d>>, *)
(* a datetime.date is its proleptic Gregorian ordinal, None is the record  *)
(* None, a JSON number n is Number(n), a dict is a function whose domain   *)
(* is its key set.                                                         *)
(***************************************************************************)
EXTENDS Integers, Sequences, FiniteSets, TLC

(***************************************************************************)
(* Program constants.                                                      *)
(***************************************************************************)
N_RETRIES == 10
DELAY_SECONDS == 10
COURTESY_SECONDS == 2
HTTP_OK == 200

(***************************************************************************)
(* Bounds of the model.                                                    *)
(***************************************************************************)
MaxDays == 2          \* date_start and date_stop range over MaxDays consecutive days
MaxFilterLen == 2     \* longest currencies list of the config

BaseDate == <<2024, 2, 28>>     \* first day of the window: it spans 29 February
Years == 2023 .. 2025           \* years the calendar conversion searches
Codes == {"USD", "EUR"}         \* currency codes of snapshots and of filters
Statuses == {200, 404, 500}     \* HTTP status codes the endpoint answers with

(***************************************************************************)
(* Python values.                                                          *)
(***************************************************************************)
None == [type |-> "NoneType"]
Number(n) == [num |-> n]

\* dict.get(key) and dict.get(key, default)
GetOr(d, k, default) == IF k \in DOMAIN d THEN d[k] ELSE default
Get(d, k) == GetOr(d, k, None)

\* d[k] = v on a dict
Put(d, k, v) == [x \in (DOMAIN d) \cup {k} |-> IF x = k THEN v ELSE d[x]]

EmptyDict == <<>>

(***************************************************************************)
(* datetime.date: fromisoformat, strftime(DATE_FORMAT), + timedelta(days). *)
(***************************************************************************)
IsLeap(y) == (y % 4 = 0) /\ ((y % 100 # 0) \/ (y % 400 = 0))

DaysInMonth(y, m) ==
    IF m = 2 THEN (IF IsLeap(y) THEN 29 ELSE 28)
    ELSE IF m \in {4, 6, 9, 11} THEN 30 ELSE 31

DaysBeforeYear(y) ==
    (y - 1) * 365 + ((y - 1) \div 4) - ((y - 1) \div 100) + ((y - 1) \div 400)

DaysBeforeMonth(y, m) ==
    <<0, 31, 59, 90, 120, 151, 181, 212, 243, 273, 304, 334>>[m]
        + (IF m > 2 /\ IsLeap(y) THEN 1 ELSE 0)

\* date.fromisoformat(s): the date, as its ordinal
fromisoformat(s) == DaysBeforeYear(s[1]) + DaysBeforeMonth(s[1], s[2]) + s[3]

\* date.strftime("%Y-%m-%d"): the ISO string of the date with ordinal n
strftime(n) ==
    LET y == CHOOSE yy \in Years :
                 DaysBeforeYear(yy) < n /\ n <= DaysBeforeYear(yy + 1)
        r == n - DaysBeforeYear(y)
        m == CHOOSE mm \in 1 .. 12 :
                 DaysBeforeMonth(y, mm) < r
                 /\ r <= DaysBeforeMonth(y, mm) + DaysInMonth(y, mm)
    IN  <<y, m, r - DaysBeforeMonth(y, m)>>

\* (date.fromisoformat(s) + timedelta(days=1)).strftime(DATE_FORMAT)
NextDay(s) == strftime(fromisoformat(s) + 1)

\* ENDPOINT.replace('DATE', date.fromisoformat(s).strftime('%Y//%m//%d')):
\* the archive URL, identified by the date formatted into its path
Endpoint(s) == strftime(fromisoformat(s))

(***************************************************************************)
(* Inputs: the arguments of do_sync and the answers of the endpoint.       *)
(***************************************************************************)
InputDates == {strftime(fromisoformat(BaseDate) + i) : i \in 0 .. MaxDays - 1}

ListsUpTo(n) == UNION {[1 .. k -> Codes] : k \in 0 .. n}

\* config.get("currencies"): absent (None), a string, or a list of codes
CurrencyInputs ==
    {None, [type |-> "str", value |-> "USD"]}
        \cup {[type |-> "list", items |-> l] : l \in ListsUpTo(MaxFilterLen)}

\* one currency of a snapshot
Entries == {[Value |-> Number(70), Nominal |-> Number(1)],
            [Value |-> Number(80), Nominal |-> Number(10)]}

\* the Valute map of a day: any subset of the codes, {} included
ValuteMaps == UNION {[S -> Entries] : S \in SUBSET Codes}

\* response.json(): a snapshot with a Valute map, an object without one, or
\* a body for which json() or the .get on its result raises
Malformed == [type |-> "JSONDecodeError"]
Bodies == {Malformed, [Date |-> "d"]}
              \cup {[Date |-> "d", Valute |-> v] : v \in ValuteMaps}

\* what requests.request gives for one attempt: an exception, or a response
\* with a status, a text that does or does not contain the marker, a body
TransportError == [type |-> "Exception"]
Responses ==
    {[status_code |-> s, marker |-> TRUE, body |-> Malformed] : s \in Statuses}
        \cup {[status_code |-> s, marker |-> FALSE, body |-> Malformed] :
                  s \in Statuses \ {HTTP_OK}}
        \cup {[status_code |-> HTTP_OK, marker |-> FALSE, body |-> b] : b \in Bodies}
AttemptOutcomes == {TransportError} \cup Responses

IsResponse(r) == "status_code" \in DOMAIN r

\* the empty string, and bool(v) of a config or state value
EmptyStr == <<>>
IsTrue(v) == v # None /\ v # EmptyStr

\* a or b
Or(a, b) == IF IsTrue(a) THEN a ELSE b

\* date.today(): the day after the leap day
Todays == {<<2024, 3, 1>>}

\* the dicts with some of the keys ks, each with one of the values vs
DictsOver(ks, vs) == UNION {[S -> vs] : S \in SUBSET ks}

\* json.load of the config file: each date absent, "" or a date (the first
\* day of the window for date_start, the last one for date_stop); the
\* currencies absent
LastDate == strftime(fromisoformat(BaseDate) + MaxDays - 1)
Configs == {a @@ b : a \in DictsOver({"date_start"}, {EmptyStr, BaseDate}),
                     b \in DictsOver({"date_stop"}, {EmptyStr, LastDate})}

\* json.load of the state file of the first run: no file, or a state
StateFiles == {EmptyDict}
                 \cup {[date_start |-> BaseDate, date_stop |-> b] : b \in InputDates}

\* the answers of the archive in a chain of runs: one of each class
ChainOutcomes ==
    {TransportError,
     [status_code |-> 404, marker |-> TRUE, body |-> Malformed],
     [status_code |-> HTTP_OK, marker |-> FALSE, body |-> Malformed],
     [status_code |-> HTTP_OK, marker |-> FALSE,
      body |-> [Date |-> "d",
                Valute |-> [c \in {"USD"} |-> [Value |-> Number(70),
                                               Nominal |-> Number(1)]]]]}

(***************************************************************************)
(* make_schema, and the record of one day.                                 *)
(***************************************************************************)
DateProperty == [type |-> <<"string">>, format |-> "date"]
RateProperty == [type |-> <<"null", "number">>, format |-> ""]

make_schema(rec) ==
    [k \in {"date"} \cup DOMAIN rec |->
        IF k = "date" THEN DateProperty ELSE RateProperty]

NominalKey(valute) == valute \o "_Nominal"

\* bool(currencies) after the type check: a non-empty list
HasFilter(cur) == cur # None /\ Len(cur.items) > 0

\* variant: a currency that is not in the snapshot gets no key
RECURSIVE FillFilteredSkipsAbsent(_, _, _, _)
FillFilteredSkipsAbsent(rec, items, i, valutes) ==
    IF i > Len(items) THEN rec
    ELSE LET valute == items[i]
             r1 == Put(rec, valute, Get(valutes[valute], "Value"))
             r2 == Put(r1, NominalKey(valute), Get(valutes[valute], "Nominal"))
         IN  IF valute \in DOMAIN valutes
             THEN FillFilteredSkipsAbsent(r2, items, i + 1, valutes)
             ELSE FillFilteredSkipsAbsent(rec, items, i + 1, valutes)

\* for valute in currencies: the two assignments, in list order
RECURSIVE FillFiltered(_, _, _, _)
FillFiltered(rec, items, i, valutes) ==
    IF i > Len(items) THEN rec
    ELSE LET valute == items[i]
             entry == GetOr(valutes, valute, EmptyDict)
             r1 == Put(rec, valute, Get(entry, "Value"))
             r2 == Put(r1, NominalKey(valute), Get(entry, "Nominal"))
         IN  FillFiltered(r2, items, i + 1, valutes)

\* for valute in valutes: the two assignments, for each key of the map
RECURSIVE FillAll(_, _, _)
FillAll(rec, todo, valutes) ==
    IF todo = {} THEN rec
    ELSE LET valute == CHOOSE c \in todo : TRUE
             r1 == Put(rec, valute, Get(valutes[valute], "Value"))
             r2 == Put(r1, NominalKey(valute), Get(valutes[valute], "Nominal"))
         IN  FillAll(r2, todo \ {valute}, valutes)

\* variant: the record takes every currency of the snapshot, filter or not
BuildRecordIgnoresFilter(day, cur, valutes) ==
    LET rec == [k \in {"date"} |-> day]
    IN  FillAll(rec, DOMAIN valutes, valutes)

BuildRecord(day, cur, valutes) ==
    LET rec == [k \in {"date"} |-> day]
    IN  IF HasFilter(cur)
        THEN FillFiltered(rec, cur.items, 1, valutes)
        ELSE FillAll(rec, DOMAIN valutes, valutes)

(***************************************************************************)
(* make_retry: the classification of one attempt and the backoff delay.    *)
(***************************************************************************)
\* variant: the status is tested before the marker
ClassifyStatusFirst(outcome) ==
    IF ~IsResponse(outcome) THEN "retry"
    ELSE IF outcome.status_code # HTTP_OK THEN "retry"
    ELSE IF outcome.marker THEN "nodata"
    ELSE "success"

Classify(outcome) ==
    IF ~IsResponse(outcome) THEN "retry"
    ELSE IF outcome.status_code # HTTP_OK /\ ~outcome.marker THEN "retry"
    ELSE IF outcome.marker THEN "nodata"
    ELSE "success"

\* variant: the exponent counts the attempts from one
DelayOneBased(retry_index) == DELAY_SECONDS * 2 ^ (retry_index + 1)

Delay(retry_index) == DELAY_SECONDS * 2 ^ retry_index

(***************************************************************************)
(* State.                                                                  *)
(***************************************************************************)
VARIABLES
    pc,               \* position in do_sync
    date_start,       \* argument
    date_stop,        \* argument
    currencies,       \* argument, None after a failed type check
    date_to_process,  \* loop variable of the while loop
    data,             \* accumulated records
    state,            \* the state dict
    record,           \* the local `record`: last one built, then the loop variable
    retry,            \* loop variable of make_retry
    response,         \* value make_retry returned
    idx,              \* position of `for record in data`
    output,           \* messages written by singer.write_*
    fetched,          \* history: the URL of every make_retry call
    results,          \* history: date and kind of every make_retry return
    attempt,          \* history: the last requests.request outcome and its class
    attempts,         \* history: requests.request calls of the current make_retry
    delays,           \* history: backoff sleeps of the current make_retry
    courtesy,         \* history: seconds slept by time.sleep(2)
    config,           \* main: the config file
    state_file,       \* main: the state file, the last state written before this run
    today,            \* main: date.today()
    runs,             \* number of the current run of the tap
    archive,          \* the answers the archive can give to an attempt
    prev              \* history: what the previous run of the tap did

vars == <<pc, date_start, date_stop, currencies, date_to_process, data, state,
          record, retry, response, idx, output, fetched, results, attempt,
          attempts, delays, courtesy, config, state_file, today, runs, archive,
          prev>>

main_vars == <<config, state_file, today, runs, archive, prev>>
args == <<date_start, date_stop, main_vars>>
fetch_vars == <<retry, response, attempt, attempts, delays>>
hist_vars == <<fetched, results, courtesy>>

Init ==
    /\ pc = "start"
    /\ date_start \in InputDates
    /\ date_stop \in InputDates
    /\ currencies \in CurrencyInputs
    /\ date_to_process = None
    /\ data = <<>>
    /\ state = None
    /\ record = None
    /\ retry = 0
    /\ response = None
    /\ idx = 0
    /\ output = <<>>
    /\ fetched = <<>>
    /\ results = <<>>
    /\ attempt = None
    /\ attempts = 0
    /\ delays = <<>>
    /\ courtesy = 0
    /\ config = [date_start |-> date_start, date_stop |-> date_stop,
                 currencies |-> currencies]
    /\ state_file = EmptyDict
    /\ today \in Todays
    /\ runs = 1
    /\ archive = AttemptOutcomes
    /\ prev = None

(***************************************************************************)
(* Lines 98-109: the type check of currencies and the initialisation.      *)
(***************************************************************************)
\* variant: a value that is not a list is taken as a list of one code
SetupWrapsCurrencies ==
    /\ pc = "start"
    /\ currencies' = IF currencies.type = "str"
                     THEN [type |-> "list", items |-> <<currencies.value>>]
                     ELSE currencies
    /\ date_to_process' = date_start
    /\ data' = <<>>
    /\ state' = [date_start |-> date_start, date_stop |-> date_stop]
    /\ pc' = "loop"
    /\ UNCHANGED <<args, record, fetch_vars, idx, output, hist_vars>>

Setup ==
    /\ pc = "start"
    /\ currencies' = IF currencies.type # "list" THEN None ELSE currencies
    /\ date_to_process' = date_start
    /\ data' = <<>>
    /\ state' = [date_start |-> date_start, date_stop |-> date_stop]
    /\ pc' = "loop"
    /\ UNCHANGED <<args, record, fetch_vars, idx, output, hist_vars>>

(***************************************************************************)
(* Lines 111-122: the loop test; in the loop, the courtesy sleep and the   *)
(* call of make_retry.                                                     *)
(***************************************************************************)
\* variant: the loop runs one day past date_stop
InRangeOffByOne == fromisoformat(date_to_process) <= fromisoformat(date_stop) + 1

InRange == fromisoformat(date_to_process) <= fromisoformat(date_stop)

EnterDay ==
    /\ pc = "loop"
    /\ InRange
    /\ courtesy' = courtesy + COURTESY_SECONDS
    /\ fetched' = Append(fetched, Endpoint(date_to_process))
    /\ retry' = 0
    /\ attempts' = 0
    /\ delays' = <<>>
    /\ attempt' = None
    /\ pc' = "fetch"
    /\ UNCHANGED <<args, currencies, date_to_process, data, state, record,
                   response, idx, output, results>>

ExitLoop ==
    /\ pc = "loop"
    /\ ~InRange
    /\ pc' = "after"
    /\ UNCHANGED <<args, currencies, date_to_process, data, state, record,
                   fetch_vars, idx, output, hist_vars>>

(***************************************************************************)
(* Lines 74-94: one pass of `for retry in range(n_retries)`.               *)
(***************************************************************************)
Return(value, kind) ==
    /\ response' = value
    /\ results' = Append(results, [date |-> date_to_process, kind |-> kind,
                                   value |-> value])
    /\ pc' = "process"

Attempt ==
    /\ pc = "fetch"
    /\ retry < N_RETRIES
    /\ \E outcome \in archive :
          /\ attempt' = [outcome |-> outcome, class |-> Classify(outcome),
                         index |-> retry]
          /\ attempts' = attempts + 1
          /\ \/ /\ Classify(outcome) = "retry"
                /\ delays' = Append(delays, Delay(retry))
                /\ retry' = retry + 1
                /\ UNCHANGED <<pc, response, results>>
             \/ /\ Classify(outcome) = "nodata"
                /\ Return(None, "NoDataForDate")
                /\ UNCHANGED <<retry, delays>>
             \/ /\ Classify(outcome) = "success"
                /\ Return(outcome, "Response")
                /\ UNCHANGED <<retry, delays>>
    /\ UNCHANGED <<args, currencies, date_to_process, data, state, record,
                   idx, output, fetched, courtesy>>

(***************************************************************************)
(* Line 96: the for loop ran out; make_retry falls off its end.            *)
(***************************************************************************)
\* variant: running out of attempts raises out of do_sync
ExhaustRaises ==
    /\ pc = "fetch"
    /\ retry = N_RETRIES
    /\ response' = None
    /\ results' = Append(results, [date |-> date_to_process, kind |-> "Exhausted",
                                   value |-> None])
    /\ pc' = "raised"
    /\ UNCHANGED <<args, currencies, date_to_process, data, state, record,
                   retry, attempt, attempts, delays,
                   idx, output, fetched, courtesy>>

Exhaust ==
    /\ pc = "fetch"
    /\ retry = N_RETRIES
    /\ Return(None, "Exhausted")
    /\ UNCHANGED <<args, currencies, date_to_process, data, state, record,
                   retry, attempt, attempts, delays,
                   idx, output, fetched, courtesy>>

(***************************************************************************)
(* Lines 124-138: the record of the day, then the next day.                *)
(***************************************************************************)
\* bool(response): None is false, a returned Response is response.ok
Truthy(r) == r # None /\ r.status_code < 400

JsonRaises(r) == r.body = Malformed

Valutes(r) == Get(r.body, "Valute")

HasData(r) == Truthy(r) /\ ~JsonRaises(r) /\ Valutes(r) # None
                 /\ DOMAIN Valutes(r) # {}

\* variant: a day without record is left without going to the next day
ProcessDayStaysOnSkip ==
    /\ pc = "process"
    /\ ~(Truthy(response) /\ JsonRaises(response))
    /\ IF HasData(response)
       THEN /\ record' = BuildRecord(date_to_process, currencies, Valutes(response))
            /\ data' = data \o <<record'>>
            /\ date_to_process' = NextDay(date_to_process)
       ELSE UNCHANGED <<record, data, date_to_process>>
    /\ retry' = 0
    /\ attempts' = 0
    /\ delays' = <<>>
    /\ attempt' = None
    /\ pc' = "loop"
    /\ UNCHANGED <<args, currencies, state, response, idx, output, hist_vars>>

ProcessDay ==
    /\ pc = "process"
    /\ ~(Truthy(response) /\ JsonRaises(response))
    /\ IF HasData(response)
       THEN /\ record' = BuildRecord(date_to_process, currencies, Valutes(response))
            /\ data' = data \o <<record'>>
       ELSE UNCHANGED <<record, data>>
    /\ date_to_process' = NextDay(date_to_process)
    /\ retry' = 0
    /\ attempts' = 0
    /\ delays' = <<>>
    /\ attempt' = None
    /\ pc' = "loop"
    /\ UNCHANGED <<args, currencies, state, response, idx, output, hist_vars>>

\* line 125: response.json() raises and nothing catches it
RaiseInProcess ==
    /\ pc = "process"
    /\ Truthy(response) /\ JsonRaises(response)
    /\ pc' = "raised"
    /\ UNCHANGED <<args, currencies, date_to_process, data, state, record,
                   fetch_vars, idx, output, hist_vars>>

(***************************************************************************)
(* Lines 140-154: the emission.                                            *)
(***************************************************************************)
Message(type, value) == [type |-> type, stream |-> "exchange_rate_cbr", value |-> value]
StateMessage(value) == [type |-> "STATE", stream |-> "", value |-> value]

\* variant: the schema is made from the first record
WriteSchemaFromFirst ==
    /\ pc = "after"
    /\ Len(data) > 0
    /\ output' = Append(output, Message("SCHEMA", make_schema(data[1])))
    /\ idx' = 1
    /\ pc' = "emit"
    /\ UNCHANGED <<args, currencies, date_to_process, data, state, record,
                   fetch_vars, hist_vars>>

WriteSchema ==
    /\ pc = "after"
    /\ Len(data) > 0
    /\ output' = Append(output, Message("SCHEMA", make_schema(record)))
    /\ idx' = 1
    /\ pc' = "emit"
    /\ UNCHANGED <<args, currencies, date_to_process, data, state, record,
                   fetch_vars, hist_vars>>

\* variant: the state is written in the branch without records too
NothingDoneWritesState ==
    /\ pc = "after"
    /\ Len(data) = 0
    /\ output' = Append(output, StateMessage(state))
    /\ pc' = "done"
    /\ UNCHANGED <<args, currencies, date_to_process, data, state, record,
                   fetch_vars, idx, hist_vars>>

\* variant: the branch without records advances date_stop and writes the state
NothingDoneAdvancesStop ==
    /\ pc = "after"
    /\ Len(data) = 0
    /\ state' = [state EXCEPT !.date_stop = NextDay(state.date_stop)]
    /\ output' = Append(output, StateMessage(state'))
    /\ pc' = "done"
    /\ UNCHANGED <<args, currencies, date_to_process, data, record,
                   fetch_vars, idx, hist_vars>>

NothingDone ==
    /\ pc = "after"
    /\ Len(data) = 0
    /\ pc' = "done"
    /\ UNCHANGED <<args, currencies, date_to_process, data, state, record,
                   fetch_vars, idx, output, hist_vars>>

\* variant: date_start is left on the date of the record
WriteRecordNoAdvance ==
    /\ pc = "emit"
    /\ idx <= Len(data)
    /\ record' = data[idx]
    /\ output' = Append(output, Message("RECORD", record'))
    /\ state' = [state EXCEPT !.date_start = record'["date"]]
    /\ idx' = idx + 1
    /\ UNCHANGED <<pc, args, currencies, date_to_process, data,
                   fetch_vars, hist_vars>>

\* variant: writing a record leaves the state as it was
WriteRecordKeepsStart ==
    /\ pc = "emit"
    /\ idx <= Len(data)
    /\ record' = data[idx]
    /\ output' = Append(output, Message("RECORD", record'))
    /\ idx' = idx + 1
    /\ UNCHANGED <<pc, args, currencies, date_to_process, data, state,
                   fetch_vars, hist_vars>>

WriteRecord ==
    /\ pc = "emit"
    /\ idx <= Len(data)
    /\ record' = data[idx]
    /\ output' = Append(output, Message("RECORD", record'))
    /\ state' = [state EXCEPT !.date_start = NextDay(record'["date"])]
    /\ idx' = idx + 1
    /\ UNCHANGED <<pc, args, currencies, date_to_process, data,
                   fetch_vars, hist_vars>>

\* variant: date_stop is written as it came in
WriteStateKeepsStop ==
    /\ pc = "emit"
    /\ idx > Len(data)
    /\ output' = Append(output, StateMessage(state))
    /\ pc' = "done"
    /\ UNCHANGED <<args, currencies, date_to_process, data, state, record,
                   fetch_vars, idx, hist_vars>>

\* variant: date_stop is advanced from the start of the range
WriteStateStopAfterStart ==
    /\ pc = "emit"
    /\ idx > Len(data)
    /\ state' = [state EXCEPT !.date_stop = NextDay(date_start)]
    /\ output' = Append(output, StateMessage(state'))
    /\ pc' = "done"
    /\ UNCHANGED <<args, currencies, date_to_process, data, record,
                   fetch_vars, idx, hist_vars>>

WriteState ==
    /\ pc = "emit"
    /\ idx > Len(data)
    /\ state' = [state EXCEPT !.date_stop = NextDay(state.date_stop)]
    /\ output' = Append(output, StateMessage(state'))
    /\ pc' = "done"
    /\ UNCHANGED <<args, currencies, date_to_process, data, record,
                   fetch_vars, idx, hist_vars>>

Next ==
    \/ Setup
    \/ EnterDay
    \/ ExitLoop
    \/ Attempt
    \/ Exhaust
    \/ ProcessDay
    \/ RaiseInProcess
    \/ WriteSchema
    \/ NothingDone
    \/ WriteRecord
    \/ WriteState

Spec == Init /\ [][Next]_vars

(***************************************************************************)
(* Lines 157-191: main.  It reads the config and the state file, resolves  *)
(* the two dates and calls do_sync.  The tap is run again and again; the   *)
(* state file of a run holds the last state message written by the runs    *)
(* before it.                                                              *)
(***************************************************************************)
MaxRuns == 2          \* runs of the tap in a chain

\* (date.today() - timedelta(days=1)).strftime(DATE_FORMAT)
Yesterday == strftime(fromisoformat(today) - 1)

\* variant: the state file is asked before the config
ResolveDateStateFirst(key) ==
    Or(Get(state_file, key), Or(Get(config, key), Yesterday))

\* config.get(key) or state.get(key) or yesterday
ResolveDate(key) == Or(Get(config, key), Or(Get(state_file, key), Yesterday))

InitMain ==
    /\ pc = "main"
    /\ config \in Configs
    /\ state_file \in StateFiles
    /\ today \in Todays
    /\ runs = 1
    /\ archive = ChainOutcomes
    /\ prev = None
    /\ date_start = None
    /\ date_stop = None
    /\ currencies = None
    /\ date_to_process = None
    /\ data = <<>>
    /\ state = None
    /\ record = None
    /\ retry = 0
    /\ response = None
    /\ idx = 0
    /\ output = <<>>
    /\ fetched = <<>>
    /\ results = <<>>
    /\ attempt = None
    /\ attempts = 0
    /\ delays = <<>>
    /\ courtesy = 0

Main ==
    /\ pc = "main"
    /\ date_start' = ResolveDate("date_start")
    /\ date_stop' = ResolveDate("date_stop")
    /\ currencies' = Get(config, "currencies")
    /\ pc' = "start"
    /\ UNCHANGED <<main_vars, date_to_process, data, state, record, fetch_vars,
                   idx, output, hist_vars>>

\* the dates of the record messages and the value of the state message
WrittenDates == {output[i].value["date"] :
                    i \in {j \in 1 .. Len(output) : output[j].type = "RECORD"}}
WrittenStates == {output[i].value :
                     i \in {j \in 1 .. Len(output) : output[j].type = "STATE"}}

\* the run has ended; the state it wrote, if any, becomes the state file of
\* the next run
NextRun ==
    /\ pc \in {"done", "raised"}
    /\ runs < MaxRuns
    /\ runs' = runs + 1
    /\ state_file' = IF WrittenStates = {} THEN state_file
                     ELSE CHOOSE st \in WrittenStates : TRUE
    /\ prev' = [date_start |-> date_start, date_stop |-> date_stop,
                written |-> WrittenDates,
                skipped |-> {fetched[i] : i \in 1 .. Len(fetched)} \ WrittenDates,
                states |-> WrittenStates]
    /\ pc' = "main"
    /\ date_start' = None
    /\ date_stop' = None
    /\ currencies' = None
    /\ date_to_process' = None
    /\ data' = <<>>
    /\ state' = None
    /\ record' = None
    /\ retry' = 0
    /\ response' = None
    /\ idx' = 0
    /\ output' = <<>>
    /\ fetched' = <<>>
    /\ results' = <<>>
    /\ attempt' = None
    /\ attempts' = 0
    /\ delays' = <<>>
    /\ courtesy' = 0
    /\ UNCHANGED <<config, today, archive>>

NextMain ==
    \/ Main
    \/ NextRun
    \/ Next

SpecMain == InitMain /\ [][NextMain]_vars

(***************************************************************************)
(* Vocabulary of the properties.                                           *)
(***************************************************************************)
Terminated == pc \in {"done", "raised"}
LoopFinished == pc \in {"after", "emit", "done"}

RangeLen ==
    IF fromisoformat(date_start) <= fromisoformat(date_stop)
    THEN fromisoformat(date_stop) - fromisoformat(date_start) + 1
    ELSE 0

\* the dates of the inclusive range, in calendar order
RangeDays == [i \in 1 .. RangeLen |-> strftime(fromisoformat(date_start) + i - 1)]

IsPrefix(s, t) == Len(s) <= Len(t) /\ \A i \in 1 .. Len(s) : s[i] = t[i]

Indices(out, type) == {i \in 1 .. Len(out) : out[i].type = type}

\* the records written so far, in the order of writing
Emitted == [i \in 1 .. Cardinality(Indices(output, "RECORD")) |-> output[i + 1].value]

EmittedDates == {output[i].value["date"] : i \in Indices(output, "RECORD")}

\* the make_retry call for day d returned a snapshot with a non-empty Valute map
ReturnedData(d) == \E i \in 1 .. Len(results) :
                       results[i].date = d /\ HasData(results[i].value)

\* schema, then the accumulated records, then the state
ExpectedOutput ==
    /\ Len(output) = Len(data) + 2
    /\ output[1].type = "SCHEMA"
    /\ \A i \in 1 .. Len(data) :
          output[i + 1].type = "RECORD" /\ output[i + 1].value = data[i]
    /\ output[Len(data) + 2].type = "STATE"
    /\ \A i \in 1 .. Len(data) - 1 :
          fromisoformat(data[i]["date"]) < fromisoformat(data[i + 1]["date"])

(***************************************************************************)
(* C1: every run that accumulates at least one record ends with the output *)
(* stream schema, one record message per accumulated record in strictly    *)
(* increasing date order, state; and nothing is written before the fetch   *)
(* of the last date of the range has returned.  Stated for every run that  *)
(* has ended, by the emission or by an exception.                          *)
(***************************************************************************)
C1_OutputStream ==
    /\ (Terminated /\ Len(data) > 0) => ExpectedOutput
    /\ output # <<>> => (LoopFinished /\ Len(results) = RangeLen)

(***************************************************************************)
(* C2: a run that accumulates no record writes nothing, and a state        *)
(* message is written at most once and only when there is a record.        *)
(***************************************************************************)
C2_NoRecordsNoOutput ==
    /\ Len(data) = 0 => output = <<>>
    /\ Cardinality(Indices(output, "STATE")) <= 1
    /\ Indices(output, "STATE") # {} => Len(data) > 0

C2_Witness ==
    /\ pc = "done"
    /\ Len(results) = 2
    /\ results[1].kind = "Exhausted"
    /\ results[2].kind = "Response"
    /\ Len(data) = 0
    /\ output = <<>>

(***************************************************************************)
(* C3: make_retry is called for each date of [date_start, date_stop]       *)
(* exactly once, in calendar order, and for no other date, whatever the    *)
(* fetches return.  Stated for every run that has left the loop or ended.  *)
(***************************************************************************)
C3_EveryDateOnce ==
    /\ IsPrefix(fetched, RangeDays)
    /\ (LoopFinished \/ Terminated) => fetched = RangeDays

(***************************************************************************)
(* C4: with date_start after date_stop there is no HTTP attempt and no     *)
(* output.                                                                 *)
(***************************************************************************)
C4_InvertedRange ==
    fromisoformat(date_start) > fromisoformat(date_stop) =>
        /\ fetched = <<>>
        /\ attempts = 0 /\ attempt = None
        /\ results = <<>>
        /\ output = <<>>

C4_Witness ==
    /\ pc = "done"
    /\ date_start = <<2024, 2, 29>>
    /\ date_stop = <<2024, 2, 28>>

(***************************************************************************)
(* C5: at the end of a run, a record with date d has been written if and   *)
(* only if d is in the range and the fetch for d returned a snapshot with  *)
(* a non-empty Valute map; at most one record is written per date.         *)
(***************************************************************************)
C5_RecordIffData ==
    /\ Terminated =>
          \A d \in {RangeDays[i] : i \in 1 .. RangeLen} \cup EmittedDates :
              (d \in EmittedDates) <=>
                  ((\E i \in 1 .. RangeLen : RangeDays[i] = d) /\ ReturnedData(d))
    /\ \A i, j \in Indices(output, "RECORD") :
          output[i].value["date"] = output[j].value["date"] => i = j

LastResult == results[Len(results)]

RECURSIVE Sum(_)
Sum(seq) == IF seq = <<>> THEN 0 ELSE seq[1] + Sum(Tail(seq))

Range(seq) == {seq[i] : i \in 1 .. Len(seq)}

(***************************************************************************)
(* C6: an attempt that raised is retryable; a response whose text holds    *)
(* the marker ends the fetch with None at once, whatever its status, with  *)
(* no sleep and no further attempt; a 200 response without the marker ends *)
(* the fetch with that response; any other status without the marker is    *)
(* retryable.                                                              *)
(***************************************************************************)
C6_Classification ==
    attempt # None =>
        LET o == attempt.outcome
            i == attempt.index
            retryable == o = TransportError \/ (o.status_code # 200 /\ ~o.marker)
            nodata == o # TransportError /\ o.marker
            success == o # TransportError /\ ~o.marker /\ o.status_code = 200
        IN  /\ retryable =>
                /\ retry = i + 1 /\ Len(delays) = i + 1 /\ attempts = i + 1
                /\ pc = "fetch" \/ (pc = "process" /\ LastResult.kind = "Exhausted")
            /\ nodata =>
                /\ pc = "process" /\ response = None
                /\ LastResult.kind = "NoDataForDate"
                /\ retry = i /\ Len(delays) = i /\ attempts = i + 1
            /\ success =>
                /\ pc \in {"process", "raised"} /\ response = o
                /\ LastResult.kind = "Response"
                /\ retry = i /\ Len(delays) = i /\ attempts = i + 1

C6_Witness ==
    /\ pc = "process"
    /\ attempt # None
    /\ attempt.index = 2
    /\ attempt.outcome # TransportError
    /\ attempt.outcome.marker
    /\ attempt.outcome.status_code = 500
    /\ response = None

(***************************************************************************)
(* C7: a fetch makes at most 10 attempts, none after a terminal one, and   *)
(* returns Exhausted exactly when all 10 were retryable; the exhaustion    *)
(* does not abort the run: the day loop goes on with the next day, the     *)
(* accumulated records are kept and are written when the emission is       *)
(* reached.                                                                *)
(***************************************************************************)
C7_Bound ==
    /\ attempts <= 10
    /\ pc \in {"process", "raised"} =>
          /\ (LastResult.kind = "Exhausted") <=> (attempts = 10 /\ Len(delays) = 10)
          /\ LastResult.kind # "Exhausted" => attempts = Len(delays) + 1
    /\ pc = "raised" => LastResult.kind # "Exhausted"
    /\ pc = "done" => \A i \in 1 .. Len(data) :
                          \E j \in Indices(output, "RECORD") : output[j].value = data[i]

C7_Continues ==
    /\ (pc = "process" /\ LastResult.kind = "Exhausted") =>
          /\ pc' = "loop"
          /\ data' = data
          /\ fromisoformat(date_to_process') = fromisoformat(date_to_process) + 1
    /\ (pc = "loop" /\ fromisoformat(date_to_process) <= fromisoformat(date_stop)) =>
          /\ pc' = "fetch"
          /\ fetched' = Append(fetched, date_to_process)

C8_Backoff ==
    /\ IsPrefix(delays, <<10, 20, 40, 80, 160, 320, 640, 1280, 2560, 5120>>)
    /\ pc = "fetch" => (Len(delays) = retry /\ attempts = retry)
    /\ pc \in {"process", "raised"} =>
          IF LastResult.kind = "Exhausted"
          THEN Len(delays) = 10 /\ attempts = 10 /\ Sum(delays) = 10230
          ELSE Len(delays) = attempts - 1

C8_Witness ==
    /\ pc = "process"
    /\ LastResult.kind = "Exhausted"
    /\ Len(delays) = 10
    /\ delays[10] = 5120

(***************************************************************************)
(* C9: the record of a day with a non-empty snapshot has the keys date, X  *)
(* and X_Nominal for every X of the non-empty filter list, or for every X  *)
(* of the snapshot when there is no filter; X and X_Nominal hold Value and *)
(* Nominal of X in the snapshot of that day, or None both when X is not in *)
(* the snapshot.                                                           *)
(***************************************************************************)
NominalName == [USD |-> "USD_Nominal", EUR |-> "EUR_Nominal"]

RecordShape(rec, V) ==
    LET Xs == IF currencies.type = "list" /\ Len(currencies.items) > 0
              THEN Range(currencies.items)
              ELSE DOMAIN V
    IN  /\ DOMAIN rec = {"date"} \cup Xs \cup {NominalName[X] : X \in Xs}
        /\ \A X \in Xs :
              IF X \in DOMAIN V
              THEN /\ rec[X] = V[X].Value
                   /\ rec[NominalName[X]] = V[X].Nominal
              ELSE /\ rec[X] = None
                   /\ rec[NominalName[X]] = None

C9_RecordShape ==
    /\ \A i \in 1 .. Len(data) :
          \E j \in 1 .. Len(results) :
              /\ results[j].date = data[i]["date"]
              /\ HasData(results[j].value)
              /\ RecordShape(data[i], results[j].value.body.Valute)
    /\ \A j \in Indices(output, "RECORD") : output[j].value \in Range(data)

C9_Witness ==
    /\ pc = "done"
    /\ currencies.type = "list"
    /\ currencies.items = <<"USD", "EUR">>
    /\ Len(data) = 2
    /\ DOMAIN data[1] = {"date", "USD", "USD_Nominal", "EUR", "EUR_Nominal"}
    /\ data[1]["USD"] = None
    /\ data[1]["USD_Nominal"] = None
    /\ data[1]["EUR"] = Number(80)
    /\ data[1]["EUR_Nominal"] = Number(10)
    /\ data[2]["USD"] = Number(70)
    /\ output[2].value = data[1]

(***************************************************************************)
(* C10: the state written has date_start one day after the date of the     *)
(* last record written and date_stop one day after the date_stop of the    *)
(* run.                                                                    *)
(***************************************************************************)
C10_State ==
    \A j \in Indices(output, "STATE") :
        LET st == output[j].value
            last == Emitted[Len(Emitted)]
        IN  /\ Len(Emitted) > 0
            /\ fromisoformat(st.date_start) = fromisoformat(last["date"]) + 1
            /\ fromisoformat(st.date_stop) = fromisoformat(date_stop) + 1
            /\ st.date_start[3] \in 1 .. DaysInMonth(st.date_start[1], st.date_start[2])
            /\ st.date_stop[3] \in 1 .. DaysInMonth(st.date_stop[1], st.date_stop[2])

C10_Witness ==
    /\ pc = "done"
    /\ date_start = <<2024, 2, 28>>
    /\ date_stop = <<2024, 2, 29>>
    /\ Len(data) = 1
    /\ data[1]["date"] = <<2024, 2, 28>>
    /\ results[2].kind = "NoDataForDate"
    /\ output[3].type = "STATE"
    /\ output[3].value = [date_start |-> <<2024, 2, 29>>, date_stop |-> <<2024, 3, 1>>]

(***************************************************************************)
(* Vocabulary of the properties of a chain of runs.                        *)
(***************************************************************************)
\* the key is in the dict with a value that is neither None nor ""
Gives(d, key) == key \in DOMAIN d /\ d[key] # None /\ d[key] # <<>>

InRun == pc \notin {"main"}

FetchedDates == {fetched[i] : i \in 1 .. Len(fetched)}

Before(d, e) == fromisoformat(d) < fromisoformat(e)

(***************************************************************************)
(* C11: when a run over [s, e] wrote a state and the next run goes over    *)
(* [state.date_start, e], with the same date_stop, the next run fetches    *)
(* and writes no date the first run wrote a record for.                    *)
(***************************************************************************)
C11_Resumes ==
    \A st \in prev.states :
        (InRun /\ date_start = st.date_start /\ date_stop = prev.date_stop) =>
            /\ WrittenDates \cap prev.written = {}
            /\ FetchedDates \cap prev.written = {}

C11_NoReemission == runs > 1 => C11_Resumes

C11_Witness ==
    /\ runs = 2
    /\ pc = "done"
    /\ prev.date_start = <<2024, 2, 28>>
    /\ prev.date_stop = <<2024, 2, 29>>
    /\ prev.written = {<<2024, 2, 28>>}
    /\ prev.states = {[date_start |-> <<2024, 2, 29>>, date_stop |-> <<2024, 3, 1>>]}
    /\ date_start = <<2024, 2, 29>>
    /\ date_stop = <<2024, 2, 29>>
    /\ WrittenDates = {<<2024, 2, 29>>}

(***************************************************************************)
(* C12: with well-formed dates do_sync never ends by an exception,         *)
(* whatever the attempts give, a 200 response without the marker whose     *)
(* body is not a JSON object with a Valute map of objects included.        *)
(***************************************************************************)
C12_NeverRaises == pc # "raised"

(***************************************************************************)
(* C13: the schema written declares exactly the keys of the last record    *)
(* accumulated, the one of the latest date with a record: date as a string *)
(* of format date, every other key as null or number.  A key that only an  *)
(* earlier record has is not declared.                                     *)
(***************************************************************************)
C13_SchemaOfLastRecord ==
    \A j \in Indices(output, "SCHEMA") :
        LET schema == output[j].value
            last == data[Len(data)]
        IN  /\ \A i \in 1 .. Len(data) :
                  fromisoformat(data[i]["date"]) <= fromisoformat(last["date"])
            /\ DOMAIN schema = DOMAIN last
            /\ schema["date"] = [type |-> <<"string">>, format |-> "date"]
            /\ \A k \in DOMAIN schema \ {"date"} :
                  schema[k] = [type |-> <<"null", "number">>, format |-> ""]

C13_Witness ==
    /\ pc = "done"
    /\ Len(data) = 2
    /\ DOMAIN data[1] = {"date", "USD", "USD_Nominal"}
    /\ DOMAIN data[2] = {"date", "EUR", "EUR_Nominal"}
    /\ output[1].type = "SCHEMA"
    /\ DOMAIN output[1].value = {"date", "EUR", "EUR_Nominal"}

(***************************************************************************)
(* C14: main takes each of date_start and date_stop, independently of the  *)
(* other, from the config if the config gives it, else from the state file *)
(* if the state file gives it, else it takes yesterday.  A config that     *)
(* gives date_start makes every run start there, whatever state the runs   *)
(* before it wrote.                                                        *)
(***************************************************************************)
Resolved(value, key) ==
    IF Gives(config, key) THEN value = config[key]
    ELSE IF Gives(state_file, key) THEN value = state_file[key]
    ELSE fromisoformat(value) = fromisoformat(today) - 1

C14_DateResolution ==
    InRun => /\ Resolved(date_start, "date_start")
             /\ Resolved(date_stop, "date_stop")

C14_Witness ==
    /\ runs = 2
    /\ pc = "done"
    /\ config = [date_start |-> <<2024, 2, 28>>]
    /\ prev.states = {[date_start |-> <<2024, 2, 29>>, date_stop |-> <<2024, 3, 1>>]}
    /\ state_file = [date_start |-> <<2024, 2, 29>>, date_stop |-> <<2024, 3, 1>>]
    /\ date_start = <<2024, 2, 28>>
    /\ date_stop = <<2024, 3, 1>>
    /\ fetched[1] = <<2024, 2, 28>>

(***************************************************************************)
(* C15: a currencies value that is not a list is dropped without an        *)
(* exception; from there on the run is a run without filter: do_sync       *)
(* starts as it does with None, fetches the dates of the range in order,   *)
(* and each record holds every currency of the snapshot of its day.        *)
(***************************************************************************)
NotAList == config["currencies"].type \notin {"list", "NoneType"}

AllOfSnapshot(rec, V) ==
    /\ DOMAIN rec = {"date"} \cup DOMAIN V \cup {NominalName[X] : X \in DOMAIN V}
    /\ \A X \in DOMAIN V : /\ rec[X] = V[X].Value
                           /\ rec[NominalName[X]] = V[X].Nominal

C15_Dropped ==
    (NotAList /\ pc # "start") =>
        /\ currencies = None
        /\ IsPrefix(fetched, RangeDays)
        /\ \A i \in 1 .. Len(data) :
              \E j \in 1 .. Len(results) :
                  /\ results[j].date = data[i]["date"]
                  /\ HasData(results[j].value)
                  /\ AllOfSnapshot(data[i], results[j].value.body.Valute)

C15_SetupStep ==
    (NotAList /\ pc = "start") =>
        /\ pc' = "loop"
        /\ currencies' = None
        /\ date_to_process' = date_start
        /\ data' = <<>>
        /\ UNCHANGED <<output, fetched, results>>

C15_NotAListIsNoFilter == [] C15_Dropped /\ [][C15_SetupStep]_vars

C15_Witness ==
    /\ pc = "done"
    /\ config["currencies"] = [type |-> "str", value |-> "USD"]
    /\ currencies = None
    /\ Len(fetched) = 2
    /\ Len(data) = 1
    /\ DOMAIN data[1] = {"date", "USD", "USD_Nominal", "EUR", "EUR_Nominal"}
    /\ Len(output) = 3

(***************************************************************************)
(* C16: do_sync terminates for every range and every sequence of attempt   *)
(* outcomes.  Every step lowers a measure that starts at no more than      *)
(* 1 + days * (N_RETRIES + 4) + 3; a make_retry call makes at most         *)
(* N_RETRIES attempts with rising index, there is at most one call per day *)
(* of the range and none for a date twice, so there are at most            *)
(* days * N_RETRIES attempts; when the loop is left the next step is the   *)
(* emission or the branch where nothing is done.                           *)
(***************************************************************************)
\* the days of the range from date_to_process on
DaysLeft ==
    LET left == fromisoformat(date_stop) - fromisoformat(date_to_process) + 1
    IN  IF left > 0 THEN left ELSE 0

\* the steps one day can take: entering it, N_RETRIES attempts, the fall off
\* the retry loop, the processing, and the writing of its record
DayCost == N_RETRIES + 4

\* an upper bound of the steps left in the run
Measure ==
    CASE pc = "main" -> 2 + RangeLen * DayCost + 3
      [] pc = "start" -> 1 + RangeLen * DayCost + 3
      [] pc = "loop" -> DaysLeft * DayCost + Len(data) + 3
      [] pc = "fetch" -> (DaysLeft - 1) * DayCost + (N_RETRIES - retry) + 3
                             + Len(data) + 3
      [] pc = "process" -> (DaysLeft - 1) * DayCost + 2 + Len(data) + 3
      [] pc = "after" -> Len(data) + 2
      [] pc = "emit" -> Len(data) - idx + 2
      [] OTHER -> 0

C16_Bounded ==
    /\ Measure >= 0
    /\ attempts <= N_RETRIES
    /\ Len(fetched) <= RangeLen
    /\ \A i, j \in 1 .. Len(fetched) : fetched[i] = fetched[j] => i = j
    /\ LoopFinished => Len(fetched) = RangeLen

C16_Step ==
    /\ Measure' < Measure
    /\ attempts' # attempts =>
          \/ attempts' = 0
          \/ /\ attempts' = attempts + 1
             /\ pc = "fetch"
             /\ attempt'.index = retry
             /\ retry' \in {retry, retry + 1}
             /\ Len(fetched) \in 1 .. RangeLen
    /\ retry' # retry => (retry' = retry + 1 \/ retry' = 0)
    /\ pc = "after" => pc' \in {"emit", "done"}

C17_StateRange ==
    \A j \in Indices(output, "STATE") :
        LET st == output[j].value
        IN  /\ fromisoformat(date_start) + 1 <= fromisoformat(st.date_start)
            /\ fromisoformat(st.date_start) <= fromisoformat(st.date_stop)
            /\ fromisoformat(st.date_stop) = fromisoformat(date_stop) + 1
            /\ \A d \in EmittedDates : Before(d, st.date_start)
            /\ EmittedDates # {}

C17_Witness ==
    /\ pc = "done"
    /\ date_start = <<2024, 2, 28>>
    /\ date_stop = <<2024, 2, 29>>
    /\ EmittedDates = {<<2024, 2, 28>>, <<2024, 2, 29>>}
    /\ \E j \in Indices(output, "STATE") :
          /\ output[j].value.date_start = <<2024, 3, 1>>
          /\ output[j].value.date_stop = <<2024, 3, 1>>

(***************************************************************************)
(* C18: with a non-empty list filter every written record has the key set  *)
(* {date} plus X and X_Nominal for each X of the filter, and that is the   *)
(* property set of the written schema, so no record has a key the schema   *)
(* does not declare.  With no filter, the records of a finished run all    *)
(* have the schema's key set only if every snapshot that gave a record has *)
(* the currency codes of the last one.                                     *)
(***************************************************************************)
FilterKeys ==
    LET Xs == Range(currencies.items)
    IN  {"date"} \cup Xs \cup {NominalName[X] : X \in Xs}

\* the positions of results where make_retry returned a snapshot with data
DataResults == {j \in 1 .. Len(results) : HasData(results[j].value)}

SnapshotCodes(j) == DOMAIN results[j].value.body.Valute

C18_KeySets ==
    \A s \in Indices(output, "SCHEMA") :
        LET props == DOMAIN output[s].value
            records == Indices(output, "RECORD")
        IN  /\ HasFilter(currencies) =>
                /\ props = FilterKeys
                /\ \A i \in records : DOMAIN output[i].value = FilterKeys
                /\ \A i \in 1 .. Len(data) : DOMAIN data[i] = FilterKeys
            /\ (/\ ~HasFilter(currencies)
                /\ pc = "done"
                /\ \A i \in records : DOMAIN output[i].value = props) =>
                   \A j, l \in DataResults :
                       (\A m \in DataResults : m <= l) =>
                           SnapshotCodes(j) = SnapshotCodes(l)

C18_Witness ==
    /\ pc = "done"
    /\ HasFilter(currencies)
    /\ currencies.items = <<"USD", "EUR">>
    /\ Len(results) = 2
    /\ HasData(results[1].value) /\ HasData(results[2].value)
    /\ SnapshotCodes(1) = {"USD"}
    /\ SnapshotCodes(2) = {"EUR"}
    /\ Cardinality(Indices(output, "RECORD")) = 2
    /\ DOMAIN output[1].value = {"date", "USD", "USD_Nominal", "EUR", "EUR_Nominal"}

(***************************************************************************)
(* C19: the date_start of a written state is the day after the last        *)
(* record.  A date the run skipped that is followed by a date with a       *)
(* record lies before state.date_start, and the run that resumes over      *)
(* [state.date_start, state.date_stop] never fetches it; a skipped date    *)
(* after the last record is in the resumed range and is fetched again.     *)
(***************************************************************************)
\* d was skipped by the previous run and a later date of that run has a record
SkippedThenRecord(d) == d \in prev.skipped /\ \E w \in prev.written : Before(d, w)

\* d was skipped by the previous run after its last record
SkippedAfterLast(d) == d \in prev.skipped /\ \A w \in prev.written : Before(w, d)

\* this run goes over the range of the state st
ResumedFrom(st) == InRun /\ date_start = st.date_start /\ date_stop = st.date_stop

C19_Resumption ==
    runs > 1 =>
        \A st \in prev.states :
            /\ \E w \in prev.written :
                  /\ st.date_start = NextDay(w)
                  /\ \A v \in prev.written : ~Before(w, v)
            /\ \A d \in prev.skipped :
                  SkippedThenRecord(d) => Before(d, st.date_start)
            /\ ResumedFrom(st) =>
                  \A d \in prev.skipped :
                      /\ SkippedThenRecord(d) => d \notin FetchedDates
                      /\ (SkippedAfterLast(d) /\ LoopFinished) => d \in FetchedDates
                      /\ (d \in FetchedDates) => SkippedAfterLast(d)

C19_Witness ==
    /\ runs = 2
    /\ pc = "done"
    /\ prev.date_start = <<2024, 2, 28>>
    /\ prev.date_stop = <<2024, 2, 29>>
    /\ prev.skipped = {<<2024, 2, 28>>}
    /\ prev.written = {<<2024, 2, 29>>}
    /\ prev.states = {[date_start |-> <<2024, 3, 1>>, date_stop |-> <<2024, 3, 1>>]}
    /\ date_start = <<2024, 3, 1>>
    /\ date_stop = <<2024, 3, 1>>
    /\ FetchedDates = {<<2024, 3, 1>>}

(***************************************************************************)
(* C20: in a chain of runs that take both dates from the state written     *)
(* last (the config gives neither), a run without record writes no state   *)
(* and the next run goes over the same range; a run with a record makes    *)
(* the next run's date_stop one day later and its date_start at least one  *)
(* day later.                                                              *)
(***************************************************************************)
FromState == ~Gives(config, "date_start") /\ ~Gives(config, "date_stop")

C20_Ranges ==
    (runs > 1 /\ InRun /\ FromState) =>
        IF prev.written = {}
        THEN /\ prev.states = {}
             /\ date_start = prev.date_start
             /\ date_stop = prev.date_stop
        ELSE /\ Cardinality(prev.states) = 1
             /\ fromisoformat(date_stop) = fromisoformat(prev.date_stop) + 1
             /\ fromisoformat(date_start) >= fromisoformat(prev.date_start) + 1

\* the end of a run that wrote no state leaves the state file as it was
C20_RunEnd ==
    (Terminated /\ pc' = "main") =>
        /\ WrittenDates = {} => (WrittenStates = {} /\ state_file' = state_file)
        /\ WrittenDates # {} => state_file' \in WrittenStates

C20_ChainAdvances == [] C20_Ranges /\ [][C20_RunEnd]_vars

C20_Witness ==
    /\ runs = 2
    /\ pc = "done"
    /\ FromState
    /\ state_file = [date_start |-> <<2024, 2, 28>>, date_stop |-> <<2024, 2, 29>>]
    /\ prev.written = {}
    /\ prev.skipped = {<<2024, 2, 28>>, <<2024, 2, 29>>}
    /\ prev.states = {}
    /\ date_start = <<2024, 2, 28>>
    /\ date_stop = <<2024, 2, 29>>
    /\ FetchedDates = {<<2024, 2, 28>>, <<2024, 2, 29>>}

=============================================================================
